---- MODULE Spec2Model ----
(***************************************************************************)
(* Health checks of the Cloud SQL Auth proxy (package healthcheck).        *)
(*                                                                         *)
(* The repository holds three revisions of the package:                    *)
(*   "instance"  src/unnamed/part_000      HC with its own startedL mutex, *)
(*                                          isReady / isLive, Close         *)
(*   "global"    src/healthcheck/healthcheck.go   package-level mutexes,   *)
(*                                          hc.ready / hc.live fields       *)
(*   "legacy"    src/unnamed/part_001      no locks, readinessTest adds 1  *)
(*                                          to the shared ConnectionsCounter*)
(* The variable variant says which revision a behaviour runs.              *)
(***************************************************************************)
EXTENDS Integers, Sequences, FiniteSets, TLC

\* ---------------------------------------------------------------- bounds
NumProbers == 2
MaxCalls == 2
MaxLimit == 1
HistLen == 3
UintBits == 4

Probers == 1..NumProbers
\* the startup path and one more caller of NotifyStarted
Notifiers == {NumProbers + 1, NumProbers + 2}
MaxCount == MaxLimit + 1
RECURSIVE Pow2(_)
Pow2(n) == IF n = 0 THEN 1 ELSE 2 * Pow2(n - 1)
\* the modulus of the uint64 counter, at the model's width
UintMod == Pow2(UintBits)

Free == 0
NoLoad == 0 - 1
Variants == {"instance", "global", "legacy"}
LockNames == {"startedL", "startupMutex", "readinessMutex", "livenessMutex"}

VARIABLES
    variant,            \* the revision of the package that runs
    hcB,                \* outcome of constructing a second tracker
    started,            \* hc.started
    ready,              \* hc.ready (global, legacy)
    live,               \* hc.live (global, legacy)
    locks,              \* holder of each sync.Mutex, Free when unlocked
    ConnectionsCounter, \* proxy.Client.ConnectionsCounter
    MaxConnections,     \* proxy.Client.MaxConnections
    conns,              \* connections the proxy itself has open (lifecycle only)
    srvListening,       \* the listener of hc.srv accepts connections
    closePc,            \* position of the caller of hc.Close
    pc,                 \* position of every prober and notifier
    path,               \* route of the probe being served
    startedLoc,         \* the value of started the query read
    active,             \* the count the query loaded, NoLoad if it loaded none
    ret,                \* return value of isReady / isLive / readinessTest
    status,             \* the answer the prober has got
    afterNotify,        \* the probe began after a notification had returned
    callsReturned,      \* NotifyStarted calls returned
    hist                \* the last readiness results computed after startup

vars == <<variant, hcB, started, ready, live, locks, ConnectionsCounter,
          MaxConnections, conns, srvListening, closePc, pc, path,
          startedLoc, active, ret, status, afterNotify, callsReturned, hist>>

setupVars == <<variant, hcB>>
trackerVars == <<started, ready, live>>
clientVars == <<ConnectionsCounter, MaxConnections, conns>>
srvVars == <<srvListening, closePc>>
notifyVars == <<callsReturned>>
queryVars == <<path, startedLoc, active, ret, status, afterNotify>>

\* ------------------------------------------------------------ sync.Mutex
Lock(l, p) ==
    /\ locks[l] = Free
    /\ locks' = [locks EXCEPT ![l] = p]

Unlock(l, p) ==
    /\ locks[l] = p
    /\ locks' = [locks EXCEPT ![l] = Free]

\* ------------------------------------------------------- pure functions
\* the limit compared with > instead of >=
AtLimitOffByOne(m, c) == m > 0 /\ c > m

\* part_000:130  c.MaxConnections > 0 && count >= c.MaxConnections
AtLimit(m, c) == m > 0 /\ c >= m

\* the started test left out
isReadyIgnoresStarted(s, m, c) == ~AtLimit(m, c)

\* a not-ready answer latches: once a query has failed, later ones fail too
isReadySticky(s, m, c) ==
    IF ~s THEN FALSE
    ELSE ~AtLimit(m, c) /\ (hist = <<>> \/ hist[Len(hist)][2])

\* part_000:124-135  the value isReady returns
isReadyResult(s, m, c) == IF ~s THEN FALSE ELSE ~AtLimit(m, c)

\* liveness tied to the startup flag
isLiveWhenStarted == started

\* part_000:110-112
isLive == TRUE

\* part_000:64,68  the status the handler writes for a result
StatusOf(b) == IF b THEN "200" ELSE "500"

\* the flag flipped instead of set
ToggleStarted(s) == ~s

\* the assignment left out
KeepStarted(s) == s

\* part_000:105
StartedAfterNotify(s) == TRUE

Push(h, e) == IF Len(h) < HistLen THEN Append(h, e) ELSE Append(Tail(h), e)

\* ------------------------------------------------------------------ Init
InitCommon ==
    /\ hcB = "none"
    /\ started = FALSE
    /\ ready = FALSE
    /\ live = TRUE
    /\ locks = [l \in LockNames |-> Free]
    /\ ConnectionsCounter = 0
    /\ MaxConnections \in 0..MaxLimit
    /\ conns = 0
    /\ closePc = "idle"
    /\ pc = [p \in Probers \cup Notifiers |-> "idle"]
    /\ path = [p \in Probers |-> "none"]
    /\ startedLoc = [p \in Probers |-> FALSE]
    /\ active = [p \in Probers |-> NoLoad]
    /\ ret = [p \in Probers |-> FALSE]
    /\ status = [p \in Probers |-> "none"]
    /\ afterNotify = [p \in Probers |-> FALSE]
    /\ callsReturned = 0
    /\ hist = <<>>

\* part_000:49-94  NewHealthCheck returned (hc, nil): net.Listen has bound the
\* listener before the constructor returns
NewHealthCheck ==
    /\ variant = "instance"
    /\ srvListening = TRUE
    /\ InitCommon

\* healthcheck.go:48-96  the constructor returns while the serving goroutine
\* has still to bind the listener
NewHealthCheckGlobal ==
    /\ variant = "global"
    /\ srvListening = FALSE
    /\ InitCommon

\* part_001:38-81
InitHealthCheck ==
    /\ variant = "legacy"
    /\ srvListening = FALSE
    /\ InitCommon

Init == NewHealthCheck

\* ------------------------------------------- connection lifecycle (proxy)
ConnOpen ==
    /\ conns < MaxCount
    /\ conns' = conns + 1
    /\ ConnectionsCounter' = (ConnectionsCounter + 1) % UintMod
    /\ UNCHANGED <<setupVars, trackerVars, locks, MaxConnections, srvVars, pc,
                   queryVars, notifyVars, hist>>

ConnClose ==
    /\ conns > 0
    /\ conns' = conns - 1
    /\ ConnectionsCounter' = (ConnectionsCounter + UintMod - 1) % UintMod
    /\ UNCHANGED <<setupVars, trackerVars, locks, MaxConnections, srvVars, pc,
                   queryVars, notifyVars, hist>>

\* ------------------------------------------------- a probe request (HTTP)
\* the request is accepted by the listener and routed to a handler
Accept(p, r, first) ==
    /\ pc[p] = "idle"
    /\ srvListening
    /\ pc' = [pc EXCEPT ![p] = first]
    /\ path' = [path EXCEPT ![p] = r]
    /\ afterNotify' = [afterNotify EXCEPT ![p] = callsReturned > 0]
    /\ UNCHANGED <<setupVars, trackerVars, locks, clientVars, srvVars,
                   startedLoc, active, ret, status, notifyVars, hist>>

\* the listener is closed: http.Get returns an error
ProbeRefused(p) ==
    /\ pc[p] = "idle"
    /\ ~srvListening
    /\ pc' = [pc EXCEPT ![p] = "answered"]
    /\ status' = [status EXCEPT ![p] = "refused"]
    /\ UNCHANGED <<setupVars, trackerVars, locks, clientVars, srvVars, path,
                   startedLoc, active, ret, afterNotify, notifyVars, hist>>

\* the prober has its answer and is free to probe again
ProbeDone(p) ==
    /\ pc[p] = "answered"
    /\ pc' = [pc EXCEPT ![p] = "idle"]
    /\ path' = [path EXCEPT ![p] = "none"]
    /\ startedLoc' = [startedLoc EXCEPT ![p] = FALSE]
    /\ active' = [active EXCEPT ![p] = NoLoad]
    /\ ret' = [ret EXCEPT ![p] = FALSE]
    /\ status' = [status EXCEPT ![p] = "none"]
    /\ afterNotify' = [afterNotify EXCEPT ![p] = FALSE]
    /\ UNCHANGED <<setupVars, trackerVars, locks, clientVars, srvVars,
                   notifyVars, hist>>

\* ------------------------------------------------ revision "instance"
ProbeReadiness(p) ==
    /\ variant = "instance"
    /\ Accept(p, "readiness", "isReady_lock")

ProbeLiveness(p) ==
    /\ variant = "instance"
    /\ Accept(p, "liveness", "isLive")

\* part_000:120
isReadyLock(p) ==
    /\ pc[p] = "isReady_lock"
    /\ Lock("startedL", p)
    /\ pc' = [pc EXCEPT ![p] = "isReady_read"]
    /\ UNCHANGED <<setupVars, trackerVars, clientVars, srvVars, queryVars,
                   notifyVars, hist>>

\* part_000:121
isReadyRead(p) ==
    /\ pc[p] = "isReady_read"
    /\ startedLoc' = [startedLoc EXCEPT ![p] = started]
    /\ pc' = [pc EXCEPT ![p] = "isReady_unlock"]
    /\ UNCHANGED <<setupVars, trackerVars, locks, clientVars, srvVars, path,
                   active, ret, status, afterNotify, notifyVars, hist>>

\* part_000:122
isReadyUnlock(p) ==
    /\ pc[p] = "isReady_unlock"
    /\ Unlock("startedL", p)
    /\ pc' = [pc EXCEPT ![p] = "isReady_check"]
    /\ UNCHANGED <<setupVars, trackerVars, clientVars, srvVars, queryVars,
                   notifyVars, hist>>

\* part_000:124-135, 63-69  isReady returns and the handler writes the status;
\* the count is loaded only when started was true and a maximum is configured
isReadyReturn(p) ==
    /\ pc[p] = "isReady_check"
    /\ LET loaded == IF startedLoc[p] /\ MaxConnections > 0
                     THEN ConnectionsCounter ELSE NoLoad
           r == isReadyResult(startedLoc[p], MaxConnections, loaded)
       IN /\ active' = [active EXCEPT ![p] = loaded]
          /\ ret' = [ret EXCEPT ![p] = r]
          /\ status' = [status EXCEPT ![p] = StatusOf(r)]
    /\ pc' = [pc EXCEPT ![p] = "answered"]
    /\ UNCHANGED <<setupVars, trackerVars, locks, clientVars, srvVars, path,
                   startedLoc, afterNotify, notifyVars>>

\* the log of results gets the answer of a query that saw started
Logged(p) ==
    hist' = IF startedLoc[p] THEN Push(hist, <<active'[p], ret'[p]>>) ELSE hist

isReadyCheck(p) == isReadyReturn(p) /\ UNCHANGED hist

isReadyCheckLogged(p) == isReadyReturn(p) /\ Logged(p)

\* part_000:72-80  the liveness handler
LivenessHandler(p) ==
    /\ variant = "instance"
    /\ pc[p] = "isLive"
    /\ ret' = [ret EXCEPT ![p] = isLive]
    /\ status' = [status EXCEPT ![p] = StatusOf(isLive)]
    /\ pc' = [pc EXCEPT ![p] = "answered"]
    /\ UNCHANGED <<setupVars, trackerVars, locks, clientVars, srvVars, path,
                   startedLoc, active, afterNotify, notifyVars, hist>>

\* NotifyStarted calls begun so far
callsBegun == callsReturned + Cardinality({n \in Notifiers : pc[n] # "idle"})

\* part_000:103  a caller enters NotifyStarted
NotifyStarted(n) ==
    /\ variant = "instance"
    /\ pc[n] = "idle"
    /\ callsBegun < MaxCalls
    /\ pc' = [pc EXCEPT ![n] = "notify_lock"]
    /\ UNCHANGED <<setupVars, trackerVars, locks, clientVars, srvVars,
                   queryVars, notifyVars, hist>>

\* part_000:104
NotifyStartedLock(n) ==
    /\ pc[n] = "notify_lock"
    /\ Lock("startedL", n)
    /\ pc' = [pc EXCEPT ![n] = "notify_write"]
    /\ UNCHANGED <<setupVars, trackerVars, clientVars, srvVars, queryVars,
                   notifyVars, hist>>

\* part_000:105
NotifyStartedWrite(n) ==
    /\ pc[n] = "notify_write"
    /\ started' = StartedAfterNotify(started)
    /\ pc' = [pc EXCEPT ![n] = "notify_unlock"]
    /\ UNCHANGED <<setupVars, ready, live, locks, clientVars, srvVars, queryVars,
                   notifyVars, hist>>

\* part_000:106-107
NotifyStartedUnlock(n) ==
    /\ pc[n] = "notify_unlock"
    /\ Unlock("startedL", n)
    /\ callsReturned' = callsReturned + 1
    /\ pc' = [pc EXCEPT ![n] = "idle"]
    /\ UNCHANGED <<setupVars, trackerVars, clientVars, srvVars, queryVars, hist>>

\* a request is being served
InFlight(p) == pc[p] \notin {"idle", "answered"}

\* Shutdown that leaves the listener open
CloseKeepsListening ==
    /\ variant = "instance"
    /\ closePc = "idle"
    /\ closePc' = "shutdown"
    /\ UNCHANGED <<setupVars, trackerVars, locks, clientVars, srvListening, pc,
                   queryVars, notifyVars, hist>>

\* part_000:97-98  srv.Shutdown closes the listener first
Close ==
    /\ variant = "instance"
    /\ closePc = "idle"
    /\ srvListening' = FALSE
    /\ closePc' = "shutdown"
    /\ UNCHANGED <<setupVars, trackerVars, locks, clientVars, pc, queryVars,
                   notifyVars, hist>>

\* part_000:98-99  Shutdown returns nil once no request is being served
CloseReturn ==
    /\ closePc = "shutdown"
    /\ \A p \in Probers : ~InFlight(p)
    /\ closePc' = "returned"
    /\ UNCHANGED <<setupVars, trackerVars, locks, clientVars, srvListening, pc,
                   queryVars, notifyVars, hist>>

\* part_000:98-99  the context ends first: Shutdown returns ctx.Err()
CloseExpire ==
    /\ closePc = "shutdown"
    /\ \E p \in Probers : InFlight(p)
    /\ closePc' = "expired"
    /\ UNCHANGED <<setupVars, trackerVars, locks, clientVars, srvListening, pc,
                   queryVars, notifyVars, hist>>

\* every step of the revision but the return of isReady
StepsInstance ==
    \/ ConnOpen
    \/ ConnClose
    \/ Close
    \/ CloseReturn
    \/ CloseExpire
    \/ \E p \in Probers :
        \/ ProbeReadiness(p)
        \/ ProbeLiveness(p)
        \/ ProbeRefused(p)
        \/ ProbeDone(p)
        \/ isReadyLock(p)
        \/ isReadyRead(p)
        \/ isReadyUnlock(p)
        \/ LivenessHandler(p)
    \/ \E n \in Notifiers :
        \/ NotifyStarted(n)
        \/ NotifyStartedLock(n)
        \/ NotifyStartedWrite(n)
        \/ NotifyStartedUnlock(n)

NextInstance ==
    \/ StepsInstance
    \/ \E p \in Probers : isReadyCheck(p)

NextInstanceLogged ==
    \/ StepsInstance
    \/ \E p \in Probers : isReadyCheckLogged(p)

\* ------------------------------------------------- revision "global"
\* healthcheck.go:89-93  srv.ListenAndServe binds the listener
ListenAndServe ==
    /\ variant \in {"global", "legacy"}
    /\ ~srvListening
    /\ srvListening' = TRUE
    /\ UNCHANGED <<setupVars, trackerVars, locks, clientVars, closePc, pc,
                   queryVars, notifyVars, hist>>

ProbeReadinessGlobal(p) ==
    /\ variant = "global"
    /\ Accept(p, "readiness", "rh_lock")

ProbeLivenessGlobal(p) ==
    /\ variant = "global"
    /\ Accept(p, "liveness", "lh_lock")

\* healthcheck.go:60
ReadinessHandlerLock(p) ==
    /\ pc[p] = "rh_lock"
    /\ Lock("readinessMutex", p)
    /\ pc' = [pc EXCEPT ![p] = "rt_lock"]
    /\ UNCHANGED <<setupVars, trackerVars, clientVars, srvVars, queryVars,
                   notifyVars, hist>>

\* healthcheck.go:116
readinessTestLock(p) ==
    /\ pc[p] = "rt_lock"
    /\ Lock("startupMutex", p)
    /\ pc' = [pc EXCEPT ![p] = "rt_read"]
    /\ UNCHANGED <<setupVars, trackerVars, clientVars, srvVars, queryVars,
                   notifyVars, hist>>

\* healthcheck.go:117
readinessTestRead(p) ==
    /\ pc[p] = "rt_read"
    /\ startedLoc' = [startedLoc EXCEPT ![p] = started]
    /\ pc' = [pc EXCEPT ![p] = "rt_unlock"]
    /\ UNCHANGED <<setupVars, trackerVars, locks, clientVars, srvVars, path,
                   active, ret, status, afterNotify, notifyVars, hist>>

\* the early return of readinessTest without its Unlock
readinessTestReturnsLocked(p) ==
    /\ pc[p] = "rt_unlock"
    /\ IF startedLoc[p] THEN Unlock("startupMutex", p) ELSE UNCHANGED locks
    /\ pc' = [pc EXCEPT ![p] = "rt_check"]
    /\ UNCHANGED <<setupVars, trackerVars, clientVars, srvVars, queryVars,
                   notifyVars, hist>>

\* healthcheck.go:118,121
readinessTestUnlock(p) ==
    /\ pc[p] = "rt_unlock"
    /\ Unlock("startupMutex", p)
    /\ pc' = [pc EXCEPT ![p] = "rt_check"]
    /\ UNCHANGED <<setupVars, trackerVars, clientVars, srvVars, queryVars,
                   notifyVars, hist>>

\* healthcheck.go:124  MaxConnections > 0 && count >= MaxConnections
AtLimitGlobal(m, c) == m > 0 /\ c >= m

\* healthcheck.go:119-128
readinessTestCheck(p) ==
    /\ pc[p] = "rt_check"
    /\ LET loaded == IF startedLoc[p] /\ MaxConnections > 0
                     THEN ConnectionsCounter ELSE NoLoad
       IN /\ active' = [active EXCEPT ![p] = loaded]
          /\ ret' = [ret EXCEPT ![p] =
                        startedLoc[p] /\ ~AtLimitGlobal(MaxConnections, loaded)]
    /\ pc' = [pc EXCEPT ![p] = "rh_store"]
    /\ UNCHANGED <<setupVars, trackerVars, locks, clientVars, srvVars, path,
                   startedLoc, status, afterNotify, notifyVars, hist>>

\* healthcheck.go:61  hc.ready = readinessTest(proxyClient, hc)
ReadinessHandlerStore(p) ==
    /\ pc[p] = "rh_store"
    /\ ready' = ret[p]
    /\ pc' = [pc EXCEPT ![p] = "rh_test"]
    /\ UNCHANGED <<setupVars, started, live, locks, clientVars, srvVars,
                   queryVars, notifyVars, hist>>

\* healthcheck.go:62-71  the handler reads hc.ready, unlocks and answers
ReadinessHandlerTest(p) ==
    /\ pc[p] = "rh_test"
    /\ Unlock("readinessMutex", p)
    /\ status' = [status EXCEPT ![p] = StatusOf(ready)]
    /\ pc' = [pc EXCEPT ![p] = "answered"]
    /\ UNCHANGED <<setupVars, trackerVars, clientVars, srvVars, path,
                   startedLoc, active, ret, afterNotify, notifyVars>>

ReadinessHandlerAnswer(p) == ReadinessHandlerTest(p) /\ UNCHANGED hist

\* the log gets the count the query loaded and the answer the handler gave
ReadinessHandlerAnswerLogged(p) ==
    /\ ReadinessHandlerTest(p)
    /\ hist' = IF startedLoc[p] THEN Push(hist, <<active[p], ready>>) ELSE hist

\* healthcheck.go:109-111
livenessTest == TRUE

\* healthcheck.go:75
LivenessHandlerLock(p) ==
    /\ pc[p] = "lh_lock"
    /\ Lock("livenessMutex", p)
    /\ pc' = [pc EXCEPT ![p] = "lh_store"]
    /\ UNCHANGED <<setupVars, trackerVars, clientVars, srvVars, queryVars,
                   notifyVars, hist>>

\* healthcheck.go:76  hc.live = livenessTest()
LivenessHandlerStore(p) ==
    /\ pc[p] = "lh_store"
    /\ live' = livenessTest
    /\ ret' = [ret EXCEPT ![p] = livenessTest]
    /\ pc' = [pc EXCEPT ![p] = "lh_test"]
    /\ UNCHANGED <<setupVars, started, ready, locks, clientVars, srvVars, path,
                   startedLoc, active, status, afterNotify, notifyVars, hist>>

\* healthcheck.go:77-86
LivenessHandlerAnswer(p) ==
    /\ pc[p] = "lh_test"
    /\ Unlock("livenessMutex", p)
    /\ status' = [status EXCEPT ![p] = StatusOf(live)]
    /\ pc' = [pc EXCEPT ![p] = "answered"]
    /\ UNCHANGED <<setupVars, trackerVars, clientVars, srvVars, path,
                   startedLoc, active, ret, afterNotify, notifyVars, hist>>

\* healthcheck.go:103
StartedAfterNotifyReady(s) == TRUE

\* healthcheck.go:100-101  a caller enters with hc != nil
NotifyReadyForConnections(n) ==
    /\ variant = "global"
    /\ pc[n] = "idle"
    /\ callsBegun < MaxCalls
    /\ pc' = [pc EXCEPT ![n] = "nr_lock"]
    /\ UNCHANGED <<setupVars, trackerVars, locks, clientVars, srvVars,
                   queryVars, notifyVars, hist>>

\* healthcheck.go:102
NotifyReadyForConnectionsLock(n) ==
    /\ pc[n] = "nr_lock"
    /\ Lock("startupMutex", n)
    /\ pc' = [pc EXCEPT ![n] = "nr_write"]
    /\ UNCHANGED <<setupVars, trackerVars, clientVars, srvVars, queryVars,
                   notifyVars, hist>>

\* healthcheck.go:103
NotifyReadyForConnectionsWrite(n) ==
    /\ pc[n] = "nr_write"
    /\ started' = StartedAfterNotifyReady(started)
    /\ pc' = [pc EXCEPT ![n] = "nr_unlock"]
    /\ UNCHANGED <<setupVars, ready, live, locks, clientVars, srvVars, queryVars,
                   notifyVars, hist>>

\* healthcheck.go:104-106
NotifyReadyForConnectionsUnlock(n) ==
    /\ pc[n] = "nr_unlock"
    /\ Unlock("startupMutex", n)
    /\ callsReturned' = callsReturned + 1
    /\ pc' = [pc EXCEPT ![n] = "idle"]
    /\ UNCHANGED <<setupVars, trackerVars, clientVars, srvVars, queryVars, hist>>

\* every step of the revision but the answer of the readiness handler
StepsGlobal ==
    \/ ConnOpen
    \/ ConnClose
    \/ ListenAndServe
    \/ \E p \in Probers :
        \/ ProbeReadinessGlobal(p)
        \/ ProbeLivenessGlobal(p)
        \/ ProbeRefused(p)
        \/ ProbeDone(p)
        \/ ReadinessHandlerLock(p)
        \/ readinessTestLock(p)
        \/ readinessTestRead(p)
        \/ readinessTestUnlock(p)
        \/ readinessTestCheck(p)
        \/ ReadinessHandlerStore(p)
        \/ LivenessHandlerLock(p)
        \/ LivenessHandlerStore(p)
        \/ LivenessHandlerAnswer(p)
    \/ \E n \in Notifiers :
        \/ NotifyReadyForConnections(n)
        \/ NotifyReadyForConnectionsLock(n)
        \/ NotifyReadyForConnectionsWrite(n)
        \/ NotifyReadyForConnectionsUnlock(n)

NextGlobal ==
    \/ StepsGlobal
    \/ \E p \in Probers : ReadinessHandlerAnswer(p)

NextGlobalLogged ==
    \/ StepsGlobal
    \/ \E p \in Probers : ReadinessHandlerAnswerLogged(p)

\* ------------------------------------------------- revision "legacy"
ProbeReadinessLegacy(p) ==
    /\ variant = "legacy"
    /\ Accept(p, "readiness", "l_read")

ProbeLivenessLegacy(p) ==
    /\ variant = "legacy"
    /\ Accept(p, "liveness", "ll_store")

\* part_001:99  hc.started is read with no synchronisation: nothing orders the
\* read after a write of NotifyReady, so it yields the value written or still
\* the initial one
RacyStarted == {started, FALSE}

\* part_001:99-102
legacyReadStarted(p) ==
    /\ pc[p] = "l_read"
    /\ \E s \in RacyStarted :
        /\ startedLoc' = [startedLoc EXCEPT ![p] = s]
        /\ pc' = [pc EXCEPT ![p] = IF s THEN "l_add" ELSE "l_store"]
    /\ UNCHANGED <<setupVars, trackerVars, locks, clientVars, srvVars, path,
                   active, ret, status, afterNotify, notifyVars, hist>>

\* the comparison of part_000 applied to the incremented count
OverLimitLegacyAtLeast(m, a) == m > 0 /\ a >= m

\* part_001:111  MaxConnections > 0 && active > MaxConnections
OverLimitLegacy(m, a) == m > 0 /\ a > m

\* part_001:106,111-115  active := atomic.AddUint64(&ConnectionsCounter, 1),
\* compared with the maximum
legacyAdd(p) ==
    /\ pc[p] = "l_add"
    /\ LET a == (ConnectionsCounter + 1) % UintMod
       IN /\ ConnectionsCounter' = a
          /\ active' = [active EXCEPT ![p] = a]
          /\ ret' = [ret EXCEPT ![p] = ~OverLimitLegacy(MaxConnections, a)]
    /\ pc' = [pc EXCEPT ![p] = "l_defer"]
    /\ UNCHANGED <<setupVars, trackerVars, locks, MaxConnections, conns, srvVars,
                   path, startedLoc, status, afterNotify, notifyVars, hist>>

\* readinessTest returning without its deferred decrement
legacyDeferSkipped(p) ==
    /\ pc[p] = "l_defer"
    /\ pc' = [pc EXCEPT ![p] = "l_store"]
    /\ UNCHANGED <<setupVars, trackerVars, locks, clientVars, srvVars,
                   queryVars, notifyVars, hist>>

\* part_001:109  the deferred atomic.AddUint64(&ConnectionsCounter, ^uint64(0))
legacyDefer(p) ==
    /\ pc[p] = "l_defer"
    /\ ConnectionsCounter' = (ConnectionsCounter + (UintMod - 1)) % UintMod
    /\ pc' = [pc EXCEPT ![p] = "l_store"]
    /\ UNCHANGED <<setupVars, trackerVars, locks, MaxConnections, conns, srvVars,
                   queryVars, notifyVars, hist>>

\* part_001:49  hc.ready = readinessTest(proxyClient, hc)
legacyStoreReady(p) ==
    /\ pc[p] = "l_store"
    /\ ready' = ret[p]
    /\ pc' = [pc EXCEPT ![p] = "l_test"]
    /\ UNCHANGED <<setupVars, started, live, locks, clientVars, srvVars,
                   queryVars, notifyVars, hist>>

\* part_001:50-56  the handler reads hc.ready back and answers
legacyAnswerReady(p) ==
    /\ pc[p] = "l_test"
    /\ status' = [status EXCEPT ![p] = StatusOf(ready)]
    /\ pc' = [pc EXCEPT ![p] = "answered"]
    /\ UNCHANGED <<setupVars, trackerVars, locks, clientVars, srvVars, path,
                   startedLoc, active, ret, afterNotify, notifyVars, hist>>

\* part_001:89-92
livenessTestLegacy == TRUE

\* part_001:61  hc.live = livenessTest()
legacyStoreLive(p) ==
    /\ pc[p] = "ll_store"
    /\ live' = livenessTestLegacy
    /\ ret' = [ret EXCEPT ![p] = livenessTestLegacy]
    /\ pc' = [pc EXCEPT ![p] = "ll_test"]
    /\ UNCHANGED <<setupVars, started, ready, locks, clientVars, srvVars, path,
                   startedLoc, active, status, afterNotify, notifyVars, hist>>

\* part_001:62-68
legacyAnswerLive(p) ==
    /\ pc[p] = "ll_test"
    /\ status' = [status EXCEPT ![p] = StatusOf(live)]
    /\ pc' = [pc EXCEPT ![p] = "answered"]
    /\ UNCHANGED <<setupVars, trackerVars, locks, clientVars, srvVars, path,
                   startedLoc, active, ret, afterNotify, notifyVars, hist>>

\* part_001:83-86
NotifyReady(n) ==
    /\ variant = "legacy"
    /\ pc[n] = "idle"
    /\ callsBegun < MaxCalls
    /\ started' = TRUE
    /\ callsReturned' = callsReturned + 1
    /\ UNCHANGED <<setupVars, ready, live, locks, clientVars, srvVars, pc,
                   queryVars, hist>>

NextLegacy ==
    \/ ConnOpen
    \/ ConnClose
    \/ ListenAndServe
    \/ \E p \in Probers :
        \/ ProbeReadinessLegacy(p)
        \/ ProbeLivenessLegacy(p)
        \/ ProbeRefused(p)
        \/ ProbeDone(p)
        \/ legacyReadStarted(p)
        \/ legacyAdd(p)
        \/ legacyDefer(p)
        \/ legacyStoreReady(p)
        \/ legacyAnswerReady(p)
        \/ legacyStoreLive(p)
        \/ legacyAnswerLive(p)
    \/ \E n \in Notifiers : NotifyReady(n)

\* ------------------------------------------------------- specifications
Next == NextInstance

\* the current revision (part_000)
Spec == Init /\ [][Next]_vars

\* healthcheck.go alone
SpecGlobal == NewHealthCheckGlobal /\ [][NextGlobal]_vars

\* part_001 alone
SpecLegacy == InitHealthCheck /\ [][NextLegacy]_vars

\* the two revisions that guard started with a mutex
InitLocked == NewHealthCheck \/ NewHealthCheckGlobal
NextLocked == NextInstance \/ NextGlobal
SpecLocked == InitLocked /\ [][NextLocked]_vars

\* the same two revisions, with the log of readiness results kept
NextHistory == NextInstanceLogged \/ NextGlobalLogged
SpecHistory == InitLocked /\ [][NextHistory]_vars

TypeOK ==
    /\ variant \in Variants
    /\ started \in BOOLEAN
    /\ ConnectionsCounter \in 0..(UintMod - 1)
    /\ MaxConnections \in 0..MaxLimit
    /\ \A l \in LockNames : locks[l] \in {Free} \cup Probers \cup Notifiers
    /\ Len(hist) <= HistLen

\* ------------------------------------------------------------- properties
\* an isReady / readinessTest call of prober p has returned
Returned(p) ==
    /\ path[p] = "readiness"
    /\ pc[p] \in {"answered", "rh_store", "rh_test", "l_store", "l_test"}

\* the probe of p on route r has been answered by its handler
Answered(p, r) == path[p] = r /\ pc[p] = "answered"

\* C1: an IsReady query returns true exactly when the started value it read
\* is true and the maximum is 0 or the count it loaded is below the maximum.
C1_ReadyIffStartedAndBelowLimit ==
    \A p \in Probers :
        Returned(p) =>
            (ret[p] <=> (startedLoc[p] /\ (MaxConnections = 0
                                           \/ active[p] < MaxConnections)))

C1_Witness ==
    \E p \in Probers :
        /\ Returned(p)
        /\ startedLoc[p]
        /\ MaxConnections = 0
        /\ ConnectionsCounter > 0
        /\ ret[p]

\* C2: while no NotifyStarted call has begun, every IsReady query returns
\* false and the readiness endpoint answers 500, whatever count and maximum.
C2_NotReadyBeforeNotify ==
    callsBegun = 0 =>
        \A p \in Probers :
            /\ Returned(p) => ~ret[p]
            /\ Answered(p, "readiness") => status[p] = "500"

C2_Witness ==
    /\ callsBegun = 0
    /\ MaxConnections = 0
    /\ ConnectionsCounter = 0
    /\ \E p \in Probers : Answered(p, "readiness") /\ status[p] = "500"

\* the step in which a started query of p loads the connection count
LoadsCount(p) ==
    /\ startedLoc[p]
    /\ pc[p] \in {"isReady_check", "rt_check", "l_add"}
    /\ pc'[p] # pc[p]

\* C3: with a maximum M > 0, a started query returns false when the
\* connection count is M or more and true when it is M - 1, also while other
\* queries are in progress.
C3_LimitDecidesReadiness ==
    [][\A p \in Probers :
          (LoadsCount(p) /\ MaxConnections > 0) =>
              /\ conns >= MaxConnections => ~ret'[p]
              /\ conns = MaxConnections - 1 => ret'[p]]_vars

\* C4: IsLive returns true and the liveness endpoint answers 200 in every
\* state, before or after NotifyStarted and at any connection count.
C4_AlwaysLive ==
    \A p \in Probers :
        Answered(p, "liveness") => (ret[p] /\ status[p] = "200")

C4_Witness ==
    \E p \in Probers :
        /\ Answered(p, "liveness")
        /\ status[p] = "200"
        /\ ~started
        /\ MaxConnections > 0
        /\ ConnectionsCounter >= MaxConnections

\* C5: no step of the tracker changes the connection counter or the maximum:
\* only connection-lifecycle events change the count.
C5_TrackerNeverWritesCounter ==
    [][(ConnectionsCounter' # ConnectionsCounter
        \/ MaxConnections' # MaxConnections) => conns' # conns]_vars

\* C6: started is initially false and, once true, stays true in every later
\* state, for any number of concurrent notifications and queries.
C6_StartedMonotonic ==
    /\ started = FALSE
    /\ [][started => started']_vars

C6_Witness ==
    /\ started
    /\ callsReturned >= 1
    /\ \E n \in Notifiers : pc[n] \in {"notify_unlock", "nr_unlock"}
    /\ \E p \in Probers : Returned(p) /\ startedLoc[p]

\* the query of p has read started
HasReadStarted(p) ==
    /\ path[p] = "readiness"
    /\ pc[p] \in {"isReady_unlock", "isReady_check", "answered"}

\* C7: an IsReady query that begins after a NotifyStarted call has returned
\* reads started as true.
C7_QueryAfterNotifySeesStarted ==
    \A p \in Probers : (HasReadStarted(p) /\ afterNotify[p]) => startedLoc[p]

C7_Witness ==
    \E p \in Probers :
        /\ HasReadStarted(p)
        /\ afterNotify[p]
        /\ startedLoc[p]
        /\ pc[p] = "answered"

\* the (count, result) pairs of the readiness queries answered after startup
Records == {hist[i] : i \in 1..Len(hist)}

\* C8: no hysteresis: after startup the result of a query is a function of
\* the count it read (the maximum is fixed), whatever earlier queries
\* returned.
C8_NoHysteresis ==
    \A r1 \in Records : \A r2 \in Records : r1[1] = r2[1] => r1[2] = r2[2]

\* ready, then not ready at the limit, then ready again
C8_Witness ==
    /\ MaxConnections > 0
    /\ \E i \in 1..(Len(hist) - 2) :
        /\ hist[i][2] /\ hist[i][1] < MaxConnections
        /\ ~hist[i + 1][2] /\ hist[i + 1][1] >= MaxConnections
        /\ hist[i + 2][2] /\ hist[i + 2][1] < MaxConnections

\* C9: NotifyStarted is idempotent: after k >= 1 calls started is true, as
\* after one call, and every later query is decided by the count alone.
C9_NotifyIdempotent ==
    callsReturned >= 1 =>
        /\ started
        /\ \A p \in Probers :
            (Returned(p) /\ afterNotify[p]) =>
                (ret[p] <=> ~AtLimit(MaxConnections, active[p]))

C9_Witness ==
    /\ callsReturned >= 2
    /\ started
    /\ \E p \in Probers :
        Answered(p, "readiness") /\ afterNotify[p] /\ status[p] = "200"

\* C10: once Close has been called the listener accepts no probe: a new probe
\* fails with an error, and a request being served when Close was called
\* leaves the server only by being answered.
C10_OrderlyShutdown ==
    [][/\ closePc' # "idle" => ~srvListening'
       /\ \A p \in Probers :
            /\ (closePc # "idle" /\ pc[p] = "idle" /\ pc'[p] # "idle") =>
                   (pc'[p] = "answered" /\ status'[p] = "refused")
            /\ (InFlight(p) /\ pc'[p] \in {"idle", "answered"}) =>
                   (pc'[p] = "answered" /\ status'[p] \in {"200", "500"})]_vars

C10_Witness ==
    /\ closePc # "idle"
    /\ \E p \in Probers : pc[p] = "answered" /\ status[p] = "refused"
    /\ \E q \in Probers : pc[q] = "isReady_check"

\* the mutex that guards started in the revision that runs; part_001 declares
\* no mutex at all, so there the name is that of a lock nobody ever takes
StartedLock == IF variant = "instance" THEN "startedL" ELSE "startupMutex"

\* the step in which q reads hc.started
ReadsStarted(q) ==
    /\ pc[q] \in {"isReady_read", "rt_read", "l_read"}
    /\ pc'[q] # pc[q]

\* the step in which q writes hc.started
WritesStarted(q) ==
    \/ pc[q] \in {"notify_write", "nr_write"} /\ pc'[q] # pc[q]
    \/ variant = "legacy" /\ q \in Notifiers /\ pc[q] = "idle"
         /\ callsReturned' # callsReturned

\* C11: every read and every write of started is made by an operation that
\* holds the lock guarding started, so no access overlaps a write.
C11_StartedAccessedUnderLock ==
    [][\A q \in Probers \cup Notifiers :
          (ReadsStarted(q) \/ WritesStarted(q)) => locks[StartedLock] = q]_vars

\* the steps of the handler that serves the probe of p, once accepted
Serve(p) ==
    \/ isReadyLock(p) \/ isReadyRead(p) \/ isReadyUnlock(p) \/ isReadyCheck(p)
    \/ LivenessHandler(p)
    \/ ReadinessHandlerLock(p) \/ readinessTestLock(p) \/ readinessTestRead(p)
    \/ readinessTestUnlock(p) \/ readinessTestCheck(p)
    \/ ReadinessHandlerStore(p) \/ ReadinessHandlerAnswer(p)
    \/ LivenessHandlerLock(p) \/ LivenessHandlerStore(p)
    \/ LivenessHandlerAnswer(p)

\* the steps of a notification call of n, once entered
Notify(n) ==
    \/ NotifyStartedLock(n) \/ NotifyStartedWrite(n) \/ NotifyStartedUnlock(n)
    \/ NotifyReadyForConnectionsLock(n) \/ NotifyReadyForConnectionsWrite(n)
    \/ NotifyReadyForConnectionsUnlock(n)

\* the Go scheduler runs every runnable goroutine, and sync.Mutex hands the
\* lock to a waiter that has waited long (starvation mode): a goroutine that
\* can take a step again and again does take it
Fairness ==
    /\ \A p \in Probers : SF_vars(Serve(p))
    /\ \A n \in Notifiers : SF_vars(Notify(n))

\* the two revisions with mutexes, under fair scheduling
SpecFair == InitLocked /\ [][NextLocked]_vars /\ Fairness

\* q is inside NotifyStarted, IsLive or IsReady (or the handler around them)
Running(q) == pc[q] \notin {"idle", "answered"}

\* C12: under fair scheduling every call of NotifyStarted, IsLive and IsReady
\* returns, and a lock is held only by an operation that has not returned.
C12_OperationsTerminate ==
    /\ [](\A l \in LockNames : locks[l] # Free => Running(locks[l]))
    /\ \A q \in Probers \cup Notifiers : Running(q) ~> ~Running(q)

\* a prober inside the readiness lock and the nested started lock, the other
\* prober and a notifier waiting, after an earlier call has returned
C12_Witness ==
    /\ variant = "global"
    /\ callsReturned >= 1
    /\ \E p \in Probers :
        /\ locks["readinessMutex"] = p
        /\ locks["startupMutex"] = p
        /\ \E q \in Probers \ {p} : pc[q] = "rh_lock"
    /\ \E n \in Notifiers : pc[n] = "nr_lock"

\* the query of p is at the load of the connection count and its comparison
\* with the maximum (part_000:130, healthcheck.go:124)
AtCountCheck(p) == pc[p] \in {"isReady_check", "rt_check"}

\* C13: at the step where an IsReady query loads the connection count and
\* compares it with the maximum, the querying operation holds no lock.
C13_NoLockAtCountCheck ==
    \A p \in Probers :
        AtCountCheck(p) => \A l \in LockNames : locks[l] # p

\* the two revisions that read the counter with one atomic operation each:
\* atomic.LoadUint64 (part_000:130) and atomic.AddUint64 (part_001:106)
InitCounted == NewHealthCheck \/ InitHealthCheck
NextCounted == NextInstance \/ NextLegacy
SpecCounted == InitCounted /\ [][NextCounted]_vars

\* part_000:129-135  what the limit test lets through, for maximum m and
\* count c
ReadinessCondition(m, c) == m = 0 \/ c < m

\* C14: the result of a started query is the readiness condition on the value
\* the counter holds at the instant of the query's atomic read, and the value
\* the query keeps is one the counter holds at that instant or right after it.
C14_ResultFromHeldCount ==
    [][\A p \in Probers :
          LoadsCount(p) =>
              /\ ret'[p] <=> ReadinessCondition(MaxConnections,
                                                ConnectionsCounter)
              /\ active'[p] \in {NoLoad, ConnectionsCounter,
                                 ConnectionsCounter'}]_vars

\* a query answered ready from a count below the maximum while the counter
\* has since reached it
C14_Witness ==
    \E p \in Probers :
        /\ Returned(p)
        /\ startedLoc[p]
        /\ MaxConnections > 0
        /\ active[p] < MaxConnections
        /\ ret[p]
        /\ ConnectionsCounter >= MaxConnections

\* part_000:49-94  a second NewHealthCheck(c, port) while the first tracker
\* exists: it makes its own mux, server and mutex; net.Listen fails when the
\* port is the one the first tracker listens on (82-85) and the constructor
\* returns nil and the error before the goroutine of 87-91 is started
NewHealthCheckSecond(samePort) ==
    /\ variant = "instance"
    /\ hcB = "none"
    /\ hcB' = IF samePort /\ srvListening THEN "error" ELSE "ok"
    /\ UNCHANGED <<variant, trackerVars, locks, clientVars, srvVars, pc,
                   queryVars, notifyVars, hist>>

\* healthcheck.go:48-59  a second NewHealthCheck: http.HandleFunc registers
\* "/readiness" on http.DefaultServeMux, where the first construction has
\* registered it, and ServeMux panics on a pattern registered twice
NewHealthCheckGlobalSecond ==
    /\ variant = "global"
    /\ hcB = "none"
    /\ hcB' = "panic"
    /\ UNCHANGED <<variant, trackerVars, locks, clientVars, srvVars, pc,
                   queryVars, notifyVars, hist>>

\* the two revisions with mutexes, with a second tracker constructed
NextTwo ==
    \/ NextLocked
    \/ \E samePort \in BOOLEAN : NewHealthCheckSecond(samePort)
    \/ NewHealthCheckGlobalSecond

SpecTwo == InitLocked /\ [][NextTwo]_vars

\* C15: constructing a second tracker B after A succeeds (or is refused with
\* an error because B's port is the one A listens on) and leaves A's started
\* flag, locks, listener and handlers as they are.
C15_SecondTrackerIndependent ==
    [][hcB' # hcB =>
          /\ hcB' = "ok" \/ (hcB' = "error" /\ srvListening)
          /\ UNCHANGED <<trackerVars, locks, srvVars, pc>>]_vars

\* C16: the status a readiness probe answers is the one of the result that
\* the same request computed, under any interleaving of concurrent probes.
C16_StatusFromOwnResult ==
    \A p \in Probers :
        Answered(p, "readiness") => status[p] = StatusOf(ret[p])

\* C17: the listener is bound when the constructor returns: no probe issued
\* before Close is refused.
C17_BoundOnReturn ==
    closePc = "idle" => \A p \in Probers : status[p] # "refused"

\* the readiness checks of part_001 between their increment and their
\* deferred decrement
Incremented == {p \in Probers : pc[p] = "l_defer"}

\* a readinessTest call of part_001 is in progress for p
CheckInProgress(p) == pc[p] \in {"l_read", "l_add", "l_defer"}

\* C18: the counter is the count of the connection-lifecycle events plus one
\* for each check between its increment and its decrement (modulo 2^w); with
\* no check in progress it is the lifecycle count alone.
C18_IncrementsUndone ==
    /\ ConnectionsCounter = (conns + Cardinality(Incremented)) % UintMod
    /\ (\A p \in Probers : ~CheckInProgress(p)) => ConnectionsCounter = conns

\* both probers have run a check to its end, one past the started test and
\* one returning early, with a connection open
C18_Witness ==
    /\ variant = "legacy"
    /\ conns > 0
    /\ ConnectionsCounter = conns
    /\ \E p \in Probers : \E q \in Probers \ {p} :
        /\ Returned(p) /\ startedLoc[p] /\ active[p] = conns + 1
        /\ Returned(q) /\ ~startedLoc[q]
====
